---- MODULE Spec2Model ----
(***************************************************************************)
(* Model of fmriprep/cli/BIDSgenerator.py (createBIDS, moveToProject,      *)
(* smooth_preprocessed_data) and of fmriprep/workflows/bold/outputs.py     *)
(* (init_func_derivatives_wf and its helpers).                              *)
(*                                                                         *)
(* Strings that the code splits, joins or tests with endswith / in are     *)
(* sequences of tokens; "." , ":" and "/" are tokens of their own, so that  *)
(* split, join and endswith are computed, not assumed.                      *)
(***************************************************************************)
EXTENDS Integers, Sequences, FiniteSets, TLC

VARIABLES
    \* ---- init_func_derivatives_wf ----
    wfpc,        \* position in init_func_derivatives_wf
    wfargs,      \* its arguments
    nodes,       \* nodes of the workflow graph: [name, iface]
    edges,       \* connections: [src, out, fn, dst, in]
    iterables,   \* node name -> key list (set of <<name, keys>>)
    nodeInputs,  \* static inputs set on nodes (set of <<name, field, value>>)
    \* ---- createBIDS ----
    pc,          \* position in createBIDS
    call,        \* arguments and the source tree read by createBIDS
    dest,        \* the BIDS destination tree
    loop,        \* loop variables of the functional step
    hist,        \* what the call has done so far (copies, commands, writes)
    \* ---- moveToProject / smooth_preprocessed_data ----
    fpc,         \* position in moveToProject / smooth_preprocessed_data
    fcall,       \* arguments and the tree the function walks
    fout         \* loop position and the names written under (outNames: the
                 \* destinations of copyfile and the names handed to nib.save)

wfVars   == <<wfpc, wfargs, nodes, edges, iterables, nodeInputs>>
bidsVars == <<pc, call, dest, loop, hist>>
fileVars == <<fpc, fcall, fout>>
vars     == <<wfpc, wfargs, nodes, edges, iterables, nodeInputs,
              pc, call, dest, loop, hist, fpc, fcall, fout>>

(***************************************************************************)
(* Generic helpers on token strings                                         *)
(***************************************************************************)
None == "None"

\* str.endswith
EndsWith(s, suf) ==
    /\ Len(s) >= Len(suf)
    /\ SubSeq(s, Len(s) - Len(suf) + 1, Len(s)) = suf

\* str.find(sub) + 1: where sub first occurs in s, 0 when it does not
IndexOf(s, sub) ==
    LET hits == { i \in 1..(Len(s) - Len(sub) + 1) :
                    SubSeq(s, i, i + Len(sub) - 1) = sub }
    IN  IF hits = {} THEN 0 ELSE CHOOSE i \in hits : \A j \in hits : i <= j

\* sub in s
Contains(s, sub) == IndexOf(s, sub) # 0

\* str.split(sep): the list of pieces
RECURSIVE Split(_, _)
Split(s, sep) ==
    IF IndexOf(s, sep) = 0
    THEN << s >>
    ELSE LET k == IndexOf(s, sep)
         IN  << SubSeq(s, 1, k - 1) >>
             \o Split(SubSeq(s, k + Len(sep), Len(s)), sep)

\* sep.join(parts)
RECURSIVE Join(_, _)
Join(parts, sep) ==
    IF parts = << >> THEN << >>
    ELSE IF Len(parts) = 1 THEN parts[1]
    ELSE parts[1] \o sep \o Join(Tail(parts), sep)

\* injective sequences over S of length at most n
InjSeqs(S, n) ==
    { s \in UNION { [1..k -> S] : k \in 0..n } :
        \A i, j \in 1..Len(s) : i # j => s[i] # s[j] }

SubsetsUpTo(S, n) == { T \in SUBSET S : Cardinality(T) <= n }

(***************************************************************************)
(* The state of a function that is not being called                         *)
(***************************************************************************)
Absent == [present |-> FALSE, src |-> 0, tr |-> 0, reo |-> 0, coords |-> <<0, 0, 0>>]

WfRestArgs ==
    [ bids_root |-> "", cifti_output |-> FALSE, freesurfer |-> FALSE,
      use_aroma |-> FALSE, nonstd |-> {}, hasSnapshot |-> FALSE,
      snapshot |-> << >> ]
WfAtRest ==
    /\ wfpc = "idle" /\ wfargs = WfRestArgs
    /\ nodes = {} /\ edges = {} /\ iterables = {} /\ nodeInputs = {}

BIDSRestCall ==
    [ pid |-> "", visitNum |-> "", sessionNum |-> "", runNameGiven |-> FALSE,
      runName |-> << >>, anatDir |-> FALSE, anatFiles |-> {},
      fmriDir |-> FALSE, tasks |-> << >>,
      runDir |-> [exists |-> FALSE, json |-> FALSE, nii |-> FALSE] ]
BIDSRestDest ==
    [ toDir |-> FALSE, anat |-> FALSE, func |-> FALSE, t1w |-> "",
      files |-> << >>, run |-> [json |-> FALSE, bold |-> Absent] ]
LoopStart == [task |-> 0, repTime |-> 0, diffs |-> << >>, elem |-> 0]
BIDSAtRest ==
    /\ pc = "idle" /\ call = BIDSRestCall /\ dest = BIDSRestDest
    /\ loop = LoopStart
    /\ hist = [copies |-> 0, written |-> {}, reoCalls |-> << >>,
               exc |-> None, excAt |-> 0, trace |-> 0]

FilesRestCall ==
    [ fn |-> "", pid |-> "", visitNum |-> "", sessionNum |-> "",
      pipeline |-> "", kernel_width |-> "", funcFiles |-> << >>,
      anatFiles |-> << >>, tree |-> {} ]
FoutStart ==
    [idx |-> 1, outNames |-> {}, copies |-> {}, dirs |-> {}, todo |-> {}, exc |-> None]
FilesAtRest ==
    /\ fpc = "idle" /\ fcall = FilesRestCall /\ fout = FoutStart

(***************************************************************************)
(* init_func_derivatives_wf                                                 *)
(***************************************************************************)
MaxSnap   == 2    \* longest spaces.snapshot
MaxNonStd == 2    \* most nonstandard spaces

NativeNames == {"func", "run", "bold", "boldref", "sbref"}
T1Names     == {"T1w", "anat"}
NonStdNames == NativeNames \cup T1Names

\* references a snapshot may hold: name (colon-separated parts), spec items,
\* dim and legacyname
SpacePool ==
    { [name |-> <<"MNI152NLin2009cAsym">>, spec |-> << <<"res", "2">> >>,
       dim |-> 3, legacyname |-> None],
      [name |-> <<"MNIPediatricAsym", "cohort-2">>, spec |-> << >>,
       dim |-> 3, legacyname |-> None],
      [name |-> <<"fsaverage">>, spec |-> << <<"den", "10k">> >>,
       dim |-> 2, legacyname |-> "fsaverage5"],
      [name |-> <<"fsnative">>, spec |-> << >>,
       dim |-> 2, legacyname |-> None] }

WfArgs ==
    [ bids_root    : {"/data/bids", "/scratch/bids"},
      cifti_output : BOOLEAN,
      freesurfer   : BOOLEAN,
      use_aroma    : BOOLEAN,
      nonstd       : SubsetsUpTo(NonStdNames, MaxNonStd),
      hasSnapshot  : BOOLEAN,
      snapshot     : InjSeqs(SpacePool, MaxSnap) ]

\* _gen_ref_name((s.name, s.spec))
RECURSIVE SpecItems(_)
SpecItems(items) ==
    IF items = << >> THEN << >>
    ELSE << << items[1][1], "-", items[1][2] >> >> \o SpecItems(Tail(items))

_gen_ref_name(s) ==
    Join(<< << "space-", s.name[1] >> >> \o SpecItems(s.spec), << "_" >>)

RECURSIVE SelectSeq2(_, _)
SelectSeq2(s, keep) ==
    IF s = << >> THEN << >>
    ELSE (IF Head(s) \in keep THEN << Head(s) >> ELSE << >>)
         \o SelectSeq2(Tail(s), keep)

\* [_gen_ref_name((s.name, s.spec)) for s in spaces.snapshot if s.dim == 3]
VolumeFilter(snapshot) ==
    SelectSeq2(snapshot, { s \in SpacePool : s.dim = 3 })

volume_std_spaces(snapshot) ==
    [ i \in 1..Len(VolumeFilter(snapshot)) |->
        _gen_ref_name(VolumeFilter(snapshot)[i]) ]

\* [s for s in spaces.snapshot if s.name in ('fsaverage', 'fsnative')]
fs_outputs(snapshot) ==
    SelectSeq2(snapshot,
               { s \in SpacePool : s.name \in {<<"fsaverage">>, <<"fsnative">>} })

\* s.legacyname or s.name
SurfKey(s) == IF s.legacyname # None THEN s.legacyname ELSE s.name[1]

Sink   == "DerivativesDataSink"
Ident  == "IdentityInterface"
KeySel == "KeySelect"

N(name, iface) == [name |-> name, iface |-> iface]
E(src, out, dst, in) == [src |-> src, out |-> out, fn |-> None, dst |-> dst, in |-> in]
Ef(src, out, fn, dst, in) == [src |-> src, out |-> out, fn |-> fn, dst |-> dst, in |-> in]

\* (inputnode, ds, [('source_file', 'source_file'), (field, 'in_file')])
SinkFromInput(ds, field) ==
    { E("inputnode", "source_file", ds, "source_file"),
      E("inputnode", field, ds, "in_file") }

\* the connection of source_file left out
SinkFromSelectNoSource(sel, ds, field) ==
    { E(sel, field, ds, "in_file"),
      Ef(sel, "template", "_fmt_space", ds, "space") }

\* (select, ds, [(field, 'in_file'), (('template', _fmt_space), 'space')]) and
\* (inputnode, ds, [('source_file', 'source_file')])
SinkFromSelect(sel, ds, field) ==
    { E(sel, field, ds, "in_file"),
      Ef(sel, "template", "_fmt_space", ds, "space"),
      E("inputnode", "source_file", ds, "source_file") }

RawSourcesTo(ds) == { E("raw_sources", "out", ds, "RawSources") }

WfInit ==
    /\ wfpc = "base"
    /\ wfargs \in WfArgs
    /\ ~wfargs.hasSnapshot => wfargs.snapshot = << >>
    /\ nodes = {}
    /\ edges = {}
    /\ iterables = {}
    /\ nodeInputs = {}
    /\ BIDSAtRest
    /\ FilesAtRest

\* workflow.connect: the endpoints join the graph with the connections
Connect(newNodes, newEdges, next) ==
    /\ nodes' = nodes \cup newNodes
    /\ edges' = edges \cup newEdges
    /\ wfpc' = next

\* lines 60-84: inputnode, raw_sources, ds_confounds
BaseNodes == { N("inputnode", Ident), N("raw_sources", "Function"),
               N("ds_confounds", Sink) }
BaseEdges ==
    { E("inputnode", "source_file", "raw_sources", "in_files"),
      E("inputnode", "confounds_metadata", "ds_confounds", "meta_dict") }
    \cup SinkFromInput("ds_confounds", "confounds")

WfBase ==
    /\ wfpc = "base"
    /\ Connect(BaseNodes, BaseEdges, "native")
    /\ nodeInputs' = nodeInputs \cup { <<"raw_sources", "bids_root", wfargs.bids_root>> }
    /\ UNCHANGED <<wfargs, iterables>>
    /\ UNCHANGED <<bidsVars, fileVars>>

\* lines 86-112
NativeCond(a) == a.nonstd \cap NativeNames # {}
NativeNodes == { N("ds_bold_native", Sink), N("ds_bold_native_ref", Sink),
                 N("ds_bold_mask_native", Sink) }
NativeEdges ==
    SinkFromInput("ds_bold_native", "bold_native")
    \cup SinkFromInput("ds_bold_native_ref", "bold_native_ref")
    \cup SinkFromInput("ds_bold_mask_native", "bold_mask_native")
    \cup RawSourcesTo("ds_bold_mask_native")

WfNative ==
    /\ wfpc = "native"
    /\ IF NativeCond(wfargs)
       THEN Connect(NativeNodes, NativeEdges, "t1")
       ELSE Connect({}, {}, "t1")
    /\ UNCHANGED <<wfargs, iterables, nodeInputs>>
    /\ UNCHANGED <<bidsVars, fileVars>>

\* lines 115-157
T1Cond(a) == a.nonstd \cap T1Names # {}
T1Nodes == { N("ds_bold_t1", Sink), N("ds_bold_t1_ref", Sink),
             N("ds_bold_mask_t1", Sink) }
T1Edges ==
    SinkFromInput("ds_bold_t1", "bold_t1")
    \cup SinkFromInput("ds_bold_t1_ref", "bold_t1_ref")
    \cup SinkFromInput("ds_bold_mask_t1", "bold_mask_t1")
    \cup RawSourcesTo("ds_bold_mask_t1")
T1FsNodes == { N("ds_bold_aseg_t1", Sink), N("ds_bold_aparc_t1", Sink) }
T1FsEdges ==
    SinkFromInput("ds_bold_aseg_t1", "bold_aseg_t1")
    \cup SinkFromInput("ds_bold_aparc_t1", "bold_aparc_t1")

\* the freesurfer block taken out of the T1w block
T1FsCondFlat(a) == a.freesurfer

T1FsCond(a) == T1Cond(a) /\ a.freesurfer

WfT1 ==
    /\ wfpc = "t1"
    /\ Connect((IF T1Cond(wfargs) THEN T1Nodes ELSE {})
                 \cup (IF T1FsCond(wfargs) THEN T1FsNodes ELSE {}),
               (IF T1Cond(wfargs) THEN T1Edges ELSE {})
                 \cup (IF T1FsCond(wfargs) THEN T1FsEdges ELSE {}),
               "aroma")
    /\ UNCHANGED <<wfargs, iterables, nodeInputs>>
    /\ UNCHANGED <<bidsVars, fileVars>>

\* lines 159-181
AromaNodes == { N("ds_aroma_noise_ics", Sink), N("ds_melodic_mix", Sink),
                N("ds_aroma_std", Sink) }
AromaEdges ==
    SinkFromInput("ds_aroma_noise_ics", "aroma_noise_ics")
    \cup SinkFromInput("ds_melodic_mix", "melodic_mix")
    \cup SinkFromInput("ds_aroma_std", "nonaggr_denoised_file")

WfAroma ==
    /\ wfpc = "aroma"
    /\ IF wfargs.use_aroma
       THEN Connect(AromaNodes, AromaEdges, "snapcheck")
       ELSE Connect({}, {}, "snapcheck")
    /\ UNCHANGED <<wfargs, iterables, nodeInputs>>
    /\ UNCHANGED <<bidsVars, fileVars>>

\* lines 183-184: if not hasattr(spaces, 'snapshot'): return workflow
ReturnsEarly(a) == ~a.hasSnapshot

WfSnapCheck ==
    /\ wfpc = "snapcheck"
    /\ wfpc' = IF ReturnsEarly(wfargs) THEN "returned" ELSE "std"
    /\ UNCHANGED <<wfargs, nodes, edges, iterables, nodeInputs>>
    /\ UNCHANGED <<bidsVars, fileVars>>

\* lines 187-252
StdCond(a) == a.snapshot # << >>
StdFsCond(a) == StdCond(a) /\ a.freesurfer
StdNodes == { N("select_std", KeySel), N("ds_bold_std", Sink),
              N("ds_bold_std_ref", Sink), N("ds_bold_mask_std", Sink) }
StdEdges ==
    { E("inputnode", "bold_std", "select_std", "bold_std"),
      E("inputnode", "bold_std_ref", "select_std", "bold_std_ref"),
      E("inputnode", "bold_mask_std", "select_std", "bold_mask_std"),
      E("inputnode", "template", "select_std", "template"),
      E("inputnode", "spatial_reference", "select_std", "keys") }
    \cup SinkFromSelect("select_std", "ds_bold_std", "bold_std")
    \cup SinkFromSelect("select_std", "ds_bold_std_ref", "bold_std_ref")
    \cup SinkFromSelect("select_std", "ds_bold_mask_std", "bold_mask_std")
    \cup RawSourcesTo("ds_bold_mask_std")
StdFsNodes == { N("select_fs_std", KeySel), N("ds_bold_aseg_std", Sink),
                N("ds_bold_aparc_std", Sink) }
StdFsEdges ==
    { E("inputnode", "bold_aseg_std", "select_fs_std", "bold_aseg_std"),
      E("inputnode", "bold_aparc_std", "select_fs_std", "bold_aparc_std"),
      E("inputnode", "template", "select_fs_std", "template"),
      E("inputnode", "spatial_reference", "select_fs_std", "keys") }
    \cup SinkFromSelect("select_fs_std", "ds_bold_aseg_std", "bold_aseg_std")
    \cup SinkFromSelect("select_fs_std", "ds_bold_aparc_std", "bold_aparc_std")

WfStd ==
    /\ wfpc = "std"
    /\ Connect((IF StdCond(wfargs) THEN StdNodes ELSE {})
                 \cup (IF StdFsCond(wfargs) THEN StdFsNodes ELSE {}),
               (IF StdCond(wfargs) THEN StdEdges ELSE {})
                 \cup (IF StdFsCond(wfargs) THEN StdFsEdges ELSE {}),
               "surf")
    /\ iterables' = iterables
         \cup (IF StdCond(wfargs)
               THEN { <<"select_std", volume_std_spaces(wfargs.snapshot)>> }
               ELSE {})
         \cup (IF StdFsCond(wfargs)
               THEN { <<"select_fs_std", volume_std_spaces(wfargs.snapshot)>> }
               ELSE {})
    /\ UNCHANGED <<wfargs, nodeInputs>>
    /\ UNCHANGED <<bidsVars, fileVars>>

\* lines 254-283
SurfCond(a) == a.freesurfer /\ fs_outputs(a.snapshot) # << >>
SurfNodes == { N("select_fs_surf", KeySel), N("name_surfs", "GiftiNameSource"),
               N("ds_bold_surfs", Sink) }
SurfEdges ==
    { E("inputnode", "surf_files", "select_fs_surf", "surfaces"),
      E("inputnode", "surf_refs", "select_fs_surf", "keys"),
      E("select_fs_surf", "surfaces", "name_surfs", "in_file"),
      E("select_fs_surf", "surf_kwargs", "name_surfs", "template_kwargs"),
      E("inputnode", "source_file", "ds_bold_surfs", "source_file"),
      E("select_fs_surf", "surfaces", "ds_bold_surfs", "in_file"),
      E("name_surfs", "out_name", "ds_bold_surfs", "suffix") }
SurfKeys(snapshot) ==
    [ i \in 1..Len(fs_outputs(snapshot)) |-> SurfKey(fs_outputs(snapshot)[i]) ]

WfSurf ==
    /\ wfpc = "surf"
    /\ IF SurfCond(wfargs)
       THEN /\ Connect(SurfNodes, SurfEdges, "cifti")
            /\ iterables' = iterables
                 \cup { <<"select_fs_surf", SurfKeys(wfargs.snapshot)>> }
            /\ nodeInputs' = nodeInputs
                 \cup { <<"select_fs_surf", "surf_kwargs", SurfKeys(wfargs.snapshot)>> }
       ELSE /\ Connect({}, {}, "cifti")
            /\ UNCHANGED <<iterables, nodeInputs>>
    /\ UNCHANGED wfargs
    /\ UNCHANGED <<bidsVars, fileVars>>

\* lines 286-309
CiftiNodes == { N("name_cifti", "CiftiNameSource"), N("cifti_bolds", Sink),
                N("cifti_key", Sink) }
CiftiEdges ==
    { E("inputnode", "cifti_variant", "name_cifti", "variant"),
      E("inputnode", "cifti_density", "name_cifti", "density"),
      E("inputnode", "bold_cifti", "cifti_bolds", "in_file"),
      E("inputnode", "source_file", "cifti_bolds", "source_file"),
      E("name_cifti", "out_name", "cifti_bolds", "suffix"),
      E("name_cifti", "out_name", "cifti_key", "suffix"),
      E("inputnode", "source_file", "cifti_key", "source_file"),
      E("inputnode", "cifti_metadata", "cifti_key", "in_file") }

\* the flag tested for presence instead of truth
CiftiCondAlways(a) == a.cifti_output \in BOOLEAN

\* line 286
CiftiCond(a) == a.cifti_output

WfCifti ==
    /\ wfpc = "cifti"
    /\ IF CiftiCond(wfargs)
       THEN Connect(CiftiNodes, CiftiEdges, "returned")
       ELSE Connect({}, {}, "returned")
    /\ UNCHANGED <<wfargs, iterables, nodeInputs>>
    /\ UNCHANGED <<bidsVars, fileVars>>

WfNext ==
    \/ WfBase \/ WfNative \/ WfT1 \/ WfAroma
    \/ WfSnapCheck \/ WfStd \/ WfSurf \/ WfCifti

(***************************************************************************)
(* createBIDS                                                               *)
(***************************************************************************)
MaxAnatFiles == 2    \* most files in the source anatomical folder
MaxTasks     == 2    \* most task folders under fmri/
FewTasks     == 1    \* the same, where the anatomical folder is varied

ReorientThreshold == 25
brain_vec == << 90, -126, -72 >>

\* the elif cascade of lines 32-51, in order
AnatCandidates ==
    << "T1w", "spgr_defaced", "spgr_1_defaced", "spgr_2_defaced",
       "spgr_watershed", "watershed_spgr", "watershed_spgr_1",
       "watershed_spgr_2", "spgr", "wspgr_defaced" >>
CandidateSet == { AnatCandidates[i] : i \in 1..Len(AnatCandidates) }
\* .nii.gz files an anatomical folder may hold (content = its own name)
AnatFilePool == CandidateSet \cup { "localizer" }

\* subStr = '%s%s%s' % (pid, visitNum, sessionNum)
SubStr(c) == << c.pid, c.visitNum, c.sessionNum >>

NiiGz == << "nii", ".", "gz" >>
Json  == << "json" >>

\* 'sub-%s_T1w.nii.gz' % subStr
AnatName(c) == << "sub-" >> \o SubStr(c) \o << "_T1w", "." >> \o NiiGz
\* ('sub-%s_task-' % subStr) + task + '_bold.json' / '_bold.nii.gz'
TaskFileName(c, task, ext) ==
    << "sub-" >> \o SubStr(c) \o << "_task-", task, "_bold", "." >> \o ext
\* ('sub-%s_' % subStr) + runName + '_bold.json' / '_bold.nii.gz'
RunFileName(c, ext) ==
    << "sub-" >> \o SubStr(c) \o << "_" >> \o c.runName \o << "_bold", "." >> \o ext

Image(src, tr, coords) ==
    [present |-> TRUE, src |-> src, tr |-> tr, reo |-> 0, coords |-> coords]
\* a _bold.nii.gz left in func/ by an earlier run
StaleImage == Image(-1, 0, brain_vec)

NoFiles == [json |-> FALSE, bold |-> Absent, reo |-> Absent, orig |-> Absent]

TaskNames == { "preprocessed", "rest", "nback" }

\* one task folder: its name, whether <task>/unnormalized exists, and the
\* .json (with RepetitionTime tr) and .nii.gz (sto_xyz translations coords)
\* it holds
TaskDirs(diffs) ==
    { [name |-> n, unnorm |-> FALSE, json |-> FALSE, nii |-> FALSE,
       tr |-> 0, coords |-> <<0, 0, 0>>] : n \in TaskNames }
    \cup
    { [name |-> n, unnorm |-> TRUE, json |-> j, nii |-> FALSE,
       tr |-> 2, coords |-> <<0, 0, 0>>] :
       n \in TaskNames \ {"preprocessed"}, j \in BOOLEAN }
    \cup
    { [name |-> n, unnorm |-> TRUE, json |-> j, nii |-> TRUE, tr |-> 2,
       coords |-> << brain_vec[1] + d[1], brain_vec[2] + d[2], brain_vec[3] + d[3] >>] :
       n \in TaskNames \ {"preprocessed"}, j \in BOOLEAN, d \in diffs }

\* os.walk lists each directory name once
TaskLists(diffs, maxTasks) ==
    { s \in UNION { [1..k -> TaskDirs(diffs)] : k \in 0..maxTasks } :
        \A i, j \in 1..Len(s) : i # j => s[i].name # s[j].name }

DestDirs ==
    { d \in [toDir : BOOLEAN, anat : BOOLEAN, func : BOOLEAN] :
        (d.anat \/ d.func) => d.toDir }

\* the walk of lines 135-160 reads fmri/<runName>unnormalized
RunDirs ==
    { [exists |-> FALSE, json |-> FALSE, nii |-> FALSE] }
    \cup [exists : {TRUE}, json : BOOLEAN, nii : BOOLEAN]

BIDSInitOver(anatSets, diffs, maxTasks) ==
    /\ pc = "setup"
    /\ \E d \in DestDirs, stale \in BOOLEAN :
         /\ stale => d.func
         /\ \E given \in BOOLEAN :
              call \in
                [ pid : {"p01"}, visitNum : {"1"}, sessionNum : {"2"},
                  runNameGiven : {given},
                  runName  : IF given THEN { <<"rest">>, <<"rest", "/">> } ELSE { << >> },
                  anatDir  : BOOLEAN,
                  anatFiles : anatSets,
                  fmriDir  : BOOLEAN,
                  tasks    : IF given THEN { << >> } ELSE TaskLists(diffs, maxTasks),
                  runDir   : IF given THEN RunDirs
                             ELSE { [exists |-> FALSE, json |-> FALSE, nii |-> FALSE] } ]
         /\ ~call.anatDir => call.anatFiles = {}
         /\ ~call.fmriDir => (call.tasks = << >> /\ ~call.runDir.exists)
         /\ dest = [ toDir |-> d.toDir, anat |-> d.anat, func |-> d.func,
                     t1w |-> "",
                     files |-> [ i \in 1..Len(call.tasks) |->
                                   [NoFiles EXCEPT !.bold =
                                      IF stale THEN StaleImage ELSE Absent] ],
                     run |-> [json |-> FALSE, bold |-> Absent] ]
    /\ loop = LoopStart
    /\ hist = [copies |-> 0, written |-> {}, reoCalls |-> [i \in 1..Len(call.tasks) |-> 0],
               exc |-> None, excAt |-> 0, trace |-> 0]
    /\ WfAtRest
    /\ FilesAtRest

Raise(e) ==
    /\ pc' = "raised"
    /\ hist' = [hist EXCEPT !.exc = e, !.excAt = loop.task]

\* lines 20-24
NeedsMakedirs(d) == ~d.toDir

Setup ==
    /\ pc = "setup"
    /\ dest' = IF NeedsMakedirs(dest)
               THEN [dest EXCEPT !.toDir = TRUE, !.anat = TRUE, !.func = TRUE]
               ELSE dest
    /\ pc' = "anat"
    /\ UNCHANGED <<call, loop, hist>>
    /\ UNCHANGED <<wfVars, fileVars>>

\* lines 28-51: the first candidate of the cascade that is a file
Present(c) == { i \in 1..Len(AnatCandidates) : AnatCandidates[i] \in c.anatFiles }
AnatFound(c) == c.anatDir /\ Present(c) # {}
FirstCandidate(c) ==
    AnatCandidates[CHOOSE i \in Present(c) : \A j \in Present(c) : i <= j]

CopyAnat ==
    /\ pc = "anat"
    /\ IF AnatFound(call)
       THEN IF dest.anat
            THEN /\ dest' = [dest EXCEPT !.t1w = FirstCandidate(call)]
                 /\ hist' = [hist EXCEPT !.copies = @ + 1,
                                         !.written = @ \cup { AnatName(call) }]
                 /\ pc' = "trace"
            ELSE /\ Raise("FileNotFoundError")
                 /\ UNCHANGED dest
       ELSE /\ pc' = "trace"
            /\ UNCHANGED <<dest, hist>>
    /\ UNCHANGED <<call, loop>>
    /\ UNCHANGED <<wfVars, fileVars>>

\* line 55: pdb.set_trace(), resumed with continue
Trace ==
    /\ pc = "trace"
    /\ hist' = [hist EXCEPT !.trace = @ + 1]
    /\ pc' = "func"
    /\ UNCHANGED <<call, dest, loop>>
    /\ UNCHANGED <<wfVars, fileVars>>

\* lines 57-58: next(os.walk(fromDir + '/fmri/')) raises StopIteration when
\* the walk yields nothing
ListTasks ==
    /\ pc = "func"
    /\ IF call.runNameGiven
       THEN /\ pc' = "runwalk"
            /\ UNCHANGED <<loop, hist>>
       ELSE IF call.fmriDir
            THEN /\ pc' = "task"
                 /\ loop' = [loop EXCEPT !.task = 1]
                 /\ UNCHANGED hist
            ELSE /\ Raise("StopIteration")
                 /\ UNCHANGED loop
    /\ UNCHANGED <<call, dest>>
    /\ UNCHANGED <<wfVars, fileVars>>

CurTask == call.tasks[loop.task]
CurFiles == dest.files[loop.task]

\* lines 59-64, 130-131: skip 'preprocessed' and folders without unnormalized
Skipped(t) == t.name = "preprocessed" \/ ~t.unnorm

NextTask ==
    /\ pc = "task"
    /\ IF loop.task > Len(call.tasks)
       THEN /\ pc' = "runwalk"
            /\ UNCHANGED loop
       ELSE IF Skipped(CurTask)
            THEN /\ pc' = "task"
                 /\ loop' = [loop EXCEPT !.task = @ + 1]
            ELSE /\ pc' = "json"
                 /\ loop' = [loop EXCEPT !.repTime = 0]
    /\ UNCHANGED <<call, dest, hist>>
    /\ UNCHANGED <<wfVars, fileVars>>

\* lines 66-73
CopyJson ==
    /\ pc = "json"
    /\ IF CurTask.json
       THEN IF dest.func
            THEN /\ loop' = [loop EXCEPT !.repTime = CurTask.tr]
                 /\ dest' = [dest EXCEPT !.files[loop.task].json = TRUE]
                 /\ hist' = [hist EXCEPT !.written =
                               @ \cup { TaskFileName(call, CurTask.name, Json) }]
                 /\ pc' = "nii"
            ELSE /\ Raise("FileNotFoundError")
                 /\ loop' = [loop EXCEPT !.repTime = CurTask.tr]
                 /\ UNCHANGED dest
       ELSE /\ pc' = "nii"
            /\ UNCHANGED <<dest, loop, hist>>
    /\ UNCHANGED call
    /\ UNCHANGED <<wfVars, fileVars>>

\* lines 75-87: copy the image and store the repetition time in its header
CopyNii ==
    /\ pc = "nii"
    /\ IF CurTask.nii
       THEN IF dest.func
            THEN /\ dest' = [dest EXCEPT !.files[loop.task].bold =
                               Image(loop.task, loop.repTime, CurTask.coords)]
                 /\ hist' = [hist EXCEPT !.written =
                               @ \cup { TaskFileName(call, CurTask.name, NiiGz) }]
                 /\ pc' = "fslval"
            ELSE /\ Raise("FileNotFoundError")
                 /\ UNCHANGED dest
       ELSE /\ pc' = "fslval"
            /\ UNCHANGED <<dest, hist>>
    /\ UNCHANGED <<call, loop>>
    /\ UNCHANGED <<wfVars, fileVars>>

\* lines 92-103: fslval prints the sto_xyz rows of an image that exists and
\* nothing on stdout otherwise, and func_coords1[3] then raises IndexError
global_diff(img) ==
    [ k \in 1..3 |-> img.coords[k] - brain_vec[k] ]

Fslval ==
    /\ pc = "fslval"
    /\ IF CurFiles.bold.present
       THEN /\ loop' = [loop EXCEPT !.diffs = global_diff(CurFiles.bold), !.elem = 1]
            /\ pc' = "elem"
            /\ UNCHANGED hist
       ELSE /\ Raise("IndexError")
            /\ UNCHANGED loop
    /\ UNCHANGED <<call, dest>>
    /\ UNCHANGED <<wfVars, fileVars>>

\* line 105
TooFar(element) == element > ReorientThreshold

\* mv a b
Mv(f, a, b) ==
    IF f[a].present THEN [f EXCEPT ![b] = f[a], ![a] = Absent] ELSE f

\* lines 107, 125-128: fslreorient2std _bold -> _bold_reo, mv _bold _bold_orig,
\* mv _bold_reo _bold, rm _bold_orig when both exist
Reoriented(f) == [f EXCEPT !.reo = [f.bold EXCEPT !.reo = @ + 1]]
RmOrig(f) ==
    IF f.bold.present /\ f.orig.present THEN [f EXCEPT !.orig = Absent] ELSE f
ReorientAndSwap(f) == RmOrig(Mv(Mv(Reoriented(f), "bold", "orig"), "reo", "bold"))

\* lines 104-128: one element of global_diff
\* for element in global_diff (line 104)
LoopEnds(l) == l.elem > Len(l.diffs)

Element ==
    /\ pc = "elem"
    /\ IF LoopEnds(loop)
       THEN /\ pc' = "task"
            /\ loop' = [loop EXCEPT !.task = @ + 1]
            /\ UNCHANGED <<dest, hist>>
       ELSE /\ pc' = "elem"
            /\ loop' = [loop EXCEPT !.elem = @ + 1]
            /\ IF TooFar(loop.diffs[loop.elem])
               THEN /\ dest' = [dest EXCEPT !.files[loop.task] = ReorientAndSwap(@)]
                    /\ hist' = [hist EXCEPT !.reoCalls[loop.task] = @ + 1]
               ELSE UNCHANGED <<dest, hist>>
    /\ UNCHANGED call
    /\ UNCHANGED <<wfVars, fileVars>>

\* lines 133-160: the walk of fmri/<runName>unnormalized; a runName holding
\* '/' names a file in a folder of func/ that nobody made
RunDestOk(c, d) == d.func /\ \A i \in 1..Len(c.runName) : c.runName[i] # "/"

RunWalk ==
    /\ pc = "runwalk"
    /\ LET rd == call.runDir
           writes == rd.exists /\ (rd.json \/ rd.nii)
       IN IF writes /\ ~RunDestOk(call, dest)
          THEN /\ Raise("FileNotFoundError")
               /\ UNCHANGED dest
          ELSE /\ pc' = "done"
               /\ dest' = [dest EXCEPT
                    !.run.json = @ \/ (rd.exists /\ rd.json),
                    !.run.bold = IF rd.exists /\ rd.nii
                                 THEN Image(0, IF rd.json THEN 2 ELSE 0, brain_vec)
                                 ELSE @]
               /\ hist' = [hist EXCEPT !.written = @
                    \cup (IF rd.exists /\ rd.json THEN { RunFileName(call, Json) } ELSE {})
                    \cup (IF rd.exists /\ rd.nii THEN { RunFileName(call, NiiGz) } ELSE {})]
    /\ UNCHANGED <<call, loop>>
    /\ UNCHANGED <<wfVars, fileVars>>

BIDSNext ==
    \/ Setup \/ CopyAnat \/ Trace \/ ListTasks \/ NextTask
    \/ CopyJson \/ CopyNii \/ Fslval \/ Element \/ RunWalk

(***************************************************************************)
(* moveToProject and smooth_preprocessed_data                               *)
(***************************************************************************)
MaxFiles == 2    \* most files in each fmriprep output folder
MaxTree  == 3    \* most files under the fmri tree that is smoothed

Dot == << "." >>
DotNiiGz == Dot \o NiiGz

\* 'sub-%s_task-' % subStr and '_bold'
TaskStart(c) == << "sub-" >> \o SubStr(c) \o << "_task-" >>
TaskEnd == << "_bold" >>

\* names fmriprep may leave under sub-<id>/func
FuncOutPool(c) ==
    { TaskStart(c) \o << t, "_bold", "_space-T1w_", w >> \o DotNiiGz :
        t \in {"rest", "nback"}, w \in {"preproc", "brainmask", "roi"} }
    \cup { TaskStart(c) \o << "rest", "_bold", "_", "preproc", "_", "brainmask" >> \o DotNiiGz,
           TaskStart(c) \o << "rest", "_bold", "_confounds", ".", "tsv" >>,
           TaskStart(c) \o << "rest", "_", "preproc" >> \o DotNiiGz,
           << "sub-" >> \o SubStr(c) \o << "_", "preproc" >> \o DotNiiGz }
\* names fmriprep may leave under sub-<id>/anat
AnatOutPool(c) ==
    { << "sub-" >> \o SubStr(c) \o << "_T1w_", w >> \o DotNiiGz :
        w \in {"preproc", "brainmask", "dtissue"} }
    \cup { << "sub-" >> \o SubStr(c) \o << "_T1w_", "preproc", ".", "json" >> }

\* paths the fmri tree of a session may hold
TreePool ==
    { << "fmri", "/", "rest", "/", "fsl", "/", "I_preproc" >> \o DotNiiGz,
      << "fmri", "/", "rest", "/", "fsl", "/", "brainmask" >> \o DotNiiGz,
      << "fmri", "/", "rest", "/", "unnormalized", "/", "I" >> \o DotNiiGz,
      << "fmri", "/", "rest", "/", "unnormalized", "/", "I", ".", "nii" >>,
      << "fmri", "/", "rest", "/", "unnormalized", "/", "I", ".", "json" >> }

KernelWidths == { "6", "8" }

FileIds == [pid : {"p01"}, visitNum : {"1"}, sessionNum : {"2"}]

FilesInit ==
    /\ \E ids \in FileIds :
         \/ /\ fpc = "movefunc"
            /\ fcall \in [ fn : {"moveToProject"}, pid : {ids.pid},
                           visitNum : {ids.visitNum}, sessionNum : {ids.sessionNum},
                           pipeline : {"fsl"}, kernel_width : {"0"},
                           funcFiles : InjSeqs(FuncOutPool(ids), MaxFiles),
                           anatFiles : InjSeqs(AnatOutPool(ids), MaxFiles),
                           tree : {{}} ]
         \/ /\ fpc = "collect"
            /\ fcall \in [ fn : {"smooth_preprocessed_data"}, pid : {ids.pid},
                           visitNum : {ids.visitNum}, sessionNum : {ids.sessionNum},
                           pipeline : {"fsl"}, kernel_width : KernelWidths,
                           funcFiles : {<< >>}, anatFiles : {<< >>},
                           tree : SubsetsUpTo(TreePool, MaxTree) ]
    /\ fout = FoutStart
    /\ WfAtRest
    /\ BIDSAtRest

FRaise(e) ==
    /\ fpc' = "raised"
    /\ fout' = [fout EXCEPT !.exc = e]

\* line 179: file.split('.')[0]
Stem(file) == Split(file, Dot)[1]

\* lines 177-181: (file.split(start))[1].split(end)[0]; IndexError when start
\* does not occur
HasTask(c, file) == Len(Split(file, TaskStart(c))) >= 2
TaskName(c, file) == Split(Split(file, TaskStart(c))[2], TaskEnd)[1]

\* lines 184-187: 'brainmask' is tested first
FuncTarget(fileName) ==
    IF Contains(fileName, << "brainmask" >>) THEN << "brainmask" >> \o DotNiiGz
    ELSE IF Contains(fileName, << "preproc" >>) THEN << "I_preproc" >> \o DotNiiGz
    ELSE << >>
\* lines 198-201
AnatTarget(fileName) ==
    IF Contains(fileName, << "brainmask" >>) THEN << "T1w_brainmask" >> \o DotNiiGz
    ELSE IF Contains(fileName, << "preproc" >>) THEN << "T1w_preproc" >> \o DotNiiGz
    ELSE << >>

\* op.join(toDir, taskName, pipeline)
FuncSubDir(c, file) == << "fmri", "/" >> \o TaskName(c, file) \o << "/", c.pipeline >>
AnatSubDir == << "anatomical", "/", "preprocessed" >>

\* makedirs when missing, then the copy the name selects
CopyInto(dir, file, target) ==
    fout' = [fout EXCEPT
               !.idx = @ + 1,
               !.dirs = @ \cup { dir },
               !.outNames = @ \cup (IF target = << >> THEN {}
                                       ELSE { dir \o << "/" >> \o target }),
               !.copies = @ \cup (IF target = << >> THEN {}
                                     ELSE { << file, dir \o << "/" >> \o target >> })]

\* lines 174-187, one file of the walk
MoveFunc ==
    /\ fpc = "movefunc"
    /\ IF fout.idx > Len(fcall.funcFiles)
       THEN /\ fpc' = "moveanat"
            /\ fout' = [fout EXCEPT !.idx = 1]
       ELSE LET file == fcall.funcFiles[fout.idx]
            IN  IF ~EndsWith(file, DotNiiGz)
                THEN /\ fpc' = "movefunc"
                     /\ fout' = [fout EXCEPT !.idx = @ + 1]
                ELSE IF ~HasTask(fcall, file)
                THEN FRaise("IndexError")
                ELSE /\ fpc' = "movefunc"
                     /\ CopyInto(FuncSubDir(fcall, file), file, FuncTarget(Stem(file)))
    /\ UNCHANGED fcall
    /\ UNCHANGED <<wfVars, bidsVars>>

\* lines 190-201, one file of the walk
MoveAnat ==
    /\ fpc = "moveanat"
    /\ IF fout.idx > Len(fcall.anatFiles)
       THEN /\ fpc' = "done"
            /\ UNCHANGED fout
       ELSE LET file == fcall.anatFiles[fout.idx]
            IN  IF ~EndsWith(file, DotNiiGz)
                THEN /\ fpc' = "moveanat"
                     /\ fout' = [fout EXCEPT !.idx = @ + 1]
                ELSE /\ fpc' = "moveanat"
                     /\ CopyInto(AnatSubDir, file, AnatTarget(Stem(file)))
    /\ UNCHANGED fcall
    /\ UNCHANGED <<wfVars, bidsVars>>

\* lines 205-215: every Directory + '/' + name that exists
DirOf(path) == SubSeq(path, 1, Len(path) - Len(Split(path, << "/" >>)[Len(Split(path, << "/" >>))]) - 1)
BaseOf(path) == Split(path, << "/" >>)[Len(Split(path, << "/" >>))]
to_smooth_set(tree) ==
    { p \in { DirOf(d) \o << "/" >> \o BaseOf(n) : d \in tree, n \in tree } : p \in tree }

Collect ==
    /\ fpc = "collect"
    /\ fout' = [fout EXCEPT !.todo = to_smooth_set(fcall.tree)]
    /\ fpc' = "smooth"
    /\ UNCHANGED fcall
    /\ UNCHANGED <<wfVars, bidsVars>>

\* lines 220-222
SmoothedName(path, kernel_width) ==
    LET parts == Split(path, Dot)
    IN  Join(SubSeq(parts, 1, Len(parts) - 2), Dot) \o << "_smoothed_", kernel_width >>

\* extensions nibabel takes for an image file
IsImageName(path) == EndsWith(path, DotNiiGz) \/ EndsWith(path, << ".", "nii" >>)

\* lines 218-223, one path of smooth_list (a list made from a set: any order).
\* smooth_img refuses a file that is no image; nib.save is handed
\* SmoothedName and, when that is no image file name, either refuses it or
\* writes under it
SmoothOne ==
    /\ fpc = "smooth"
    /\ IF fout.todo = {}
       THEN /\ fpc' = "done"
            /\ UNCHANGED fout
       ELSE \E path \in fout.todo :
              IF ~IsImageName(path)
              THEN FRaise("ImageFileError")
              ELSE LET out == SmoothedName(path, fcall.kernel_width)
                   IN  \E saved \in IF IsImageName(out) THEN {TRUE} ELSE BOOLEAN :
                         /\ fout' = [fout EXCEPT
                                       !.todo = @ \ { path },
                                       !.outNames = @ \cup { out },
                                       !.exc = IF saved THEN @ ELSE "ImageFileError"]
                         /\ fpc' = IF saved THEN "smooth" ELSE "raised"
    /\ UNCHANGED fcall
    /\ UNCHANGED <<wfVars, bidsVars>>

FilesNext == MoveFunc \/ MoveAnat \/ Collect \/ SmoothOne

(***************************************************************************)
(* Specifications: one call of each function, the others at rest            *)
(***************************************************************************)
\* offsets of the sto_xyz translations from brain_vec, per axis
DiffVals == { 0 - 26, 25, 26 }
AllDiffs == { << a, b, c >> : a \in DiffVals, b \in DiffVals, c \in DiffVals }
FewDiffs == { << 0, 0, 0 >>, << 26, 0 - 26, 26 >> }

\* init_func_derivatives_wf over all its arguments
WfSpec == WfInit /\ [][WfNext]_vars

\* createBIDS over every anatomical folder and destination tree
BIDSInit == BIDSInitOver(SubsetsUpTo(AnatFilePool, MaxAnatFiles), FewDiffs, FewTasks)
Spec == BIDSInit /\ [][BIDSNext]_vars

\* createBIDS over every task folder and every functional image offset
FuncInit == BIDSInitOver({ {}, {"spgr"} }, AllDiffs, MaxTasks)
FuncSpec == FuncInit /\ [][BIDSNext]_vars

\* moveToProject and smooth_preprocessed_data
FilesSpec == FilesInit /\ [][FilesNext]_vars

(***************************************************************************)
(* Properties of createBIDS                                                 *)
(***************************************************************************)
\* the exception left createBIDS before the breakpoint, i.e. in the anatomical step
AnatRaised == pc = "raised" /\ hist.trace = 0

\* C1: after the directory set-up step both sub-<id>/anat and sub-<id>/func
\* exist, whatever the destination tree looked like before
C1_DirsExistAfterSetup ==
    pc \notin {"idle", "setup"} => (dest.anat /\ dest.func)

\* C2: the anatomical step is a first-match cascade: with the folder and a
\* candidate present, anat/sub-<id>_T1w.nii.gz holds the first candidate
\* present, by exactly one copy; otherwise no file is written; in neither case
\* does the step raise
C2_FirstMatchCascade ==
    pc \notin {"idle", "setup", "anat"} =>
        /\ ~AnatRaised
        /\ IF call.anatDir /\ call.anatFiles \cap CandidateSet # {}
           THEN /\ hist.copies = 1
                /\ AnatName(call) \in hist.written
                /\ \E i \in 1..Len(AnatCandidates) :
                     /\ dest.t1w = AnatCandidates[i]
                     /\ AnatCandidates[i] \in call.anatFiles
                     /\ \A j \in 1..(i - 1) : AnatCandidates[j] \notin call.anatFiles
           ELSE /\ hist.copies = 0
                /\ dest.t1w = ""
                /\ AnatName(call) \notin hist.written

\* task i has been taken up by the loop of lines 59-131
TaskReached(i) ==
    /\ pc \notin {"idle", "setup", "anat", "trace", "func"}
    /\ loop.task >= i
    /\ ~(loop.task = i /\ pc = "task")
\* the loop is done with task i
TaskFinished(i) ==
    /\ pc \notin {"idle", "setup", "anat", "trace", "func", "raised"}
    /\ \/ loop.task > i
       \/ loop.task = i /\ pc = "elem" /\ loop.elem > 3

\* C3: with runName None, a task folder whose unnormalized directory holds no
\* .nii.gz image is skipped silently: nothing is written for it and nothing
\* is raised while it is processed
C3_EmptyTaskSkippedSilently ==
    \A i \in 1..Len(call.tasks) :
        ( /\ ~call.runNameGiven
          /\ call.tasks[i].unnorm /\ ~call.tasks[i].nii
          /\ TaskReached(i) )
        => /\ ~(pc = "raised" /\ hist.excAt = i)
           /\ TaskFileName(call, call.tasks[i].name, Json) \notin hist.written
           /\ TaskFileName(call, call.tasks[i].name, NiiGz) \notin hist.written

Abs(x) == IF x < 0 THEN 0 - x ELSE x

\* the sto_xyz translations of sub-<id>_task-<task>_bold.nii.gz as fslval reads them
FuncCoords(i) ==
    IF call.tasks[i].nii THEN call.tasks[i].coords ELSE StaleImage.coords

\* C4: fslreorient2std runs on a task's image if and only if one of the three
\* translations is more than 25 away from (90, -126, -72), in either direction
C4_ReorientIffTooDifferent ==
    \A i \in 1..Len(call.tasks) :
        (TaskFinished(i) /\ ~Skipped(call.tasks[i]))
        => ( (hist.reoCalls[i] > 0)
             <=> (\E k \in 1..3 : Abs(FuncCoords(i)[k] - brain_vec[k]) > 25) )

\* C8: the reorient-and-swap sequence runs at most once per task; afterwards
\* _bold.nii.gz is the once-reoriented image and no _bold_reo / _bold_orig is left
C8_ReorientAtMostOnce ==
    \A i \in 1..Len(call.tasks) :
        /\ hist.reoCalls[i] <= 1
        /\ (TaskFinished(i) /\ hist.reoCalls[i] > 0)
           => /\ dest.files[i].bold.present /\ dest.files[i].bold.reo = 1
              /\ ~dest.files[i].reo.present
              /\ ~dest.files[i].orig.present

(***************************************************************************)
(* Properties of the written file names                                     *)
(***************************************************************************)
HasDataSuffix(n) == EndsWith(n, Dot \o NiiGz) \/ EndsWith(n, Dot \o Json)

\* C5: every file createBIDS, moveToProject and smooth_preprocessed_data
\* write has a name ending in .nii.gz or .json (the names are the
\* destinations of copyfile and the names handed to nib.save)
C5_OutputNamesAreNiftiOrJson ==
    \A n \in hist.written \cup fout.outNames : HasDataSuffix(n)

(***************************************************************************)
(* Properties of init_func_derivatives_wf                                   *)
(***************************************************************************)
NodeNames == { n.name : n \in nodes }
CiftiNames == { "name_cifti", "cifti_bolds", "cifti_key" }
StdNames == { "select_std", "ds_bold_std", "ds_bold_std_ref", "ds_bold_mask_std" }

\* C6 as stated: the CIFTI nodes are in the returned workflow if and only if
\* cifti_output is true, whatever the other arguments
C6_CiftiIffFlag ==
    wfpc = "returned" =>
        IF wfargs.cifti_output THEN CiftiNames \subseteq NodeNames
        ELSE CiftiNames \cap NodeNames = {}

\* C6 amended: the CIFTI nodes are in the returned workflow if and only if
\* cifti_output is true and spaces has a snapshot attribute
C6_CiftiIffFlagAndSnapshot ==
    wfpc = "returned" =>
        IF wfargs.cifti_output /\ wfargs.hasSnapshot
        THEN CiftiNames \subseteq NodeNames
        ELSE CiftiNames \cap NodeNames = {}

C6_Witness ==
    /\ wfpc = "returned"
    /\ wfargs.cifti_output /\ wfargs.hasSnapshot /\ wfargs.snapshot = << >>
    /\ CiftiNames \subseteq NodeNames

KeysOf(name) == { it[2] : it \in { x \in iterables : x[1] = name } }

\* C7: the standard-space nodes are present if and only if the snapshot holds
\* a volumetric (dim == 3) space, and select_std then iterates over a
\* non-empty key list with one key per such space
C7_StdNodesIffVolumetric ==
    wfpc = "returned" =>
        LET vol == { i \in 1..Len(wfargs.snapshot) : wfargs.snapshot[i].dim = 3 }
        IN  IF wfargs.hasSnapshot /\ vol # {}
            THEN /\ StdNames \subseteq NodeNames
                 /\ \A keys \in KeysOf("select_std") :
                        Len(keys) = Cardinality(vol) /\ keys # << >>
                 /\ KeysOf("select_std") # {}
            ELSE StdNames \cap NodeNames = {}

Sinks == { n \in nodes : n.iface = Sink }
Into(name, field) == { e \in edges : e.dst = name /\ e.in = field }
IfaceOf(name) == { n.iface : n \in { m \in nodes : m.name = name } }

\* C9: every DerivativesDataSink has source_file connected from
\* inputnode.source_file and in_file connected from exactly one upstream
\* output, of inputnode or of a KeySelect node
C9_SinksFullyConnected ==
    \A n \in Sinks :
        /\ Into(n.name, "source_file") =
             { E("inputnode", "source_file", n.name, "source_file") }
        /\ Cardinality(Into(n.name, "in_file")) = 1
        /\ \A e \in Into(n.name, "in_file") :
             /\ IfaceOf(e.src) \subseteq { Ident, KeySel }
             /\ IfaceOf(e.src) # {}

C9_Witness ==
    /\ wfpc = "returned"
    /\ { "ds_bold_surfs", "cifti_key", "ds_bold_aparc_std", "ds_bold_mask_std",
         "ds_aroma_std", "ds_bold_aparc_t1", "ds_bold_native" } \subseteq NodeNames

\* C10: without a snapshot the node set is fixed by nonstd_spaces, freesurfer
\* and use_aroma alone
C10_NodeSetWithoutSnapshot ==
    (wfpc = "returned" /\ ~wfargs.hasSnapshot) =>
        NodeNames =
            { "inputnode", "raw_sources", "ds_confounds" }
            \cup (IF wfargs.nonstd \cap {"func", "run", "bold", "boldref", "sbref"} # {}
                  THEN { "ds_bold_native", "ds_bold_native_ref", "ds_bold_mask_native" }
                  ELSE {})
            \cup (IF wfargs.nonstd \cap {"T1w", "anat"} # {}
                  THEN { "ds_bold_t1", "ds_bold_t1_ref", "ds_bold_mask_t1" }
                  ELSE {})
            \cup (IF wfargs.nonstd \cap {"T1w", "anat"} # {} /\ wfargs.freesurfer
                  THEN { "ds_bold_aseg_t1", "ds_bold_aparc_t1" }
                  ELSE {})
            \cup (IF wfargs.use_aroma
                  THEN { "ds_aroma_noise_ics", "ds_melodic_mix", "ds_aroma_std" }
                  ELSE {})

C10_Witness ==
    /\ wfpc = "returned" /\ ~wfargs.hasSnapshot
    /\ wfargs.cifti_output /\ wfargs.freesurfer /\ wfargs.use_aroma
    /\ "T1w" \in wfargs.nonstd /\ "sbref" \in wfargs.nonstd
    /\ "ds_bold_aparc_t1" \in NodeNames

(***************************************************************************)
(* Properties of moveToProject                                              *)
(***************************************************************************)
MoveCalled == fcall.fn = "moveToProject"

\* the walk of sub-<id>/func is past its i-th file
FuncFileDone(i) ==
    \/ fpc \in {"moveanat", "done"}
    \/ fpc \in {"movefunc", "raised"} /\ i < fout.idx

\* the name has the word among the tokens before its first "."
HasWord(file, word) ==
    \E k \in 1..Len(file) :
        file[k] = word /\ \A j \in 1..k : file[j] # "."

\* the name starts with sub-<id>_task-
HasPrefix(file) ==
    /\ Len(file) >= 5
    /\ SubSeq(file, 1, 5) = << "sub-", fcall.pid, fcall.visitNum, fcall.sessionNum, "_task-" >>

\* the text between sub-<id>_task- and the first _bold after it, the rest of
\* the name when no _bold follows
TaskTexts(file) ==
    IF \E m \in 6..Len(file) : file[m] = "_bold"
    THEN { SubSeq(file, 6, k - 1) : k \in
             { m \in 6..Len(file) : file[m] = "_bold" /\ \A j \in 6..(m - 1) : file[j] # "_bold" } }
    ELSE { SubSeq(file, 6, Len(file)) }

\* the places moveToProject is said to copy a file of sub-<id>/func to
SaidTargets(file) ==
    IF ~EndsWith(file, << ".", "nii", ".", "gz" >>) THEN {}
    ELSE IF HasWord(file, "brainmask")
    THEN { << "fmri", "/" >> \o t \o << "/", fcall.pipeline, "/", "brainmask", ".", "nii", ".", "gz" >> :
             t \in TaskTexts(file) }
    ELSE IF HasWord(file, "preproc")
    THEN { << "fmri", "/" >> \o t \o << "/", fcall.pipeline, "/", "I_preproc", ".", "nii", ".", "gz" >> :
             t \in TaskTexts(file) }
    ELSE {}

CopiesOf(file) == { c[2] : c \in { x \in fout.copies : x[1] = file } }

\* C11 as stated: every .nii.gz file of sub-<id>/func is copied to
\* <task>/<pipeline>/brainmask.nii.gz when its name holds 'brainmask', else to
\* I_preproc.nii.gz when it holds 'preproc', and every other file is left alone
C11_EachFileCopiedByName ==
    (MoveCalled /\ fpc \in {"done", "raised"}) =>
        /\ fpc # "raised"
        /\ \A i \in 1..Len(fcall.funcFiles) :
             LET file == fcall.funcFiles[i]
             IN  /\ CopiesOf(file) = SaidTargets(file)
                 /\ ( EndsWith(file, << ".", "nii", ".", "gz" >>)
                      /\ (HasWord(file, "brainmask") \/ HasWord(file, "preproc")) )
                    => CopiesOf(file) # {}

\* what moveToProject does do: the files are taken in walk order; each .nii.gz
\* file whose name holds sub-<id>_task- is copied by the rule above, and the
\* first .nii.gz file whose name does not hold it ends the call with
\* IndexError, itself and the files after it not copied
CopiedByNameUntilNoTask ==
    MoveCalled =>
        /\ \A i \in 1..Len(fcall.funcFiles) :
             LET file == fcall.funcFiles[i]
             IN  IF FuncFileDone(i)
                 THEN /\ CopiesOf(file) = SaidTargets(file)
                      /\ EndsWith(file, << ".", "nii", ".", "gz" >>) => HasPrefix(file)
                      /\ ( EndsWith(file, << ".", "nii", ".", "gz" >>)
                           /\ (HasWord(file, "brainmask") \/ HasWord(file, "preproc")) )
                         => Cardinality(CopiesOf(file)) = 1
                 ELSE CopiesOf(file) = {}
        /\ fpc = "raised" =>
             /\ fout.exc = "IndexError"
             /\ fout.idx \in 1..Len(fcall.funcFiles)
             /\ EndsWith(fcall.funcFiles[fout.idx], << ".", "nii", ".", "gz" >>)
             /\ ~HasPrefix(fcall.funcFiles[fout.idx])
        /\ fpc = "done" =>
             \A i \in 1..Len(fcall.funcFiles) :
                EndsWith(fcall.funcFiles[i], << ".", "nii", ".", "gz" >>)
                => HasPrefix(fcall.funcFiles[i])

BothWordsCopied ==
    /\ MoveCalled /\ fpc = "done" /\ Len(fcall.funcFiles) = 2
    /\ \E i, j \in 1..2 :
         /\ HasWord(fcall.funcFiles[i], "brainmask") /\ HasWord(fcall.funcFiles[i], "preproc")
         /\ CopiesOf(fcall.funcFiles[i]) =
              { << "fmri", "/", "rest", "/", "fsl", "/", "brainmask", ".", "nii", ".", "gz" >> }
         /\ ~HasWord(fcall.funcFiles[j], "brainmask") /\ HasWord(fcall.funcFiles[j], "preproc")
         /\ CopiesOf(fcall.funcFiles[j]) =
              { << "fmri", "/", "nback", "/", "fsl", "/", "I_preproc", ".", "nii", ".", "gz" >> }

(***************************************************************************)
(* Properties of the breakpoint of createBIDS                               *)
(***************************************************************************)
\* C12: every execution of createBIDS reaches pdb.set_trace exactly once,
\* after the anatomical step and before any functional file is read or
\* written, whatever the inputs and whether or not an anatomical file was found
C12_BreakpointExactlyOnce ==
    pc # "idle" =>
        /\ hist.trace <= 1
        /\ pc \in {"setup", "anat", "trace"} => hist.trace = 0
        /\ pc \in {"done", "raised"} => hist.trace = 1
        /\ pc \in {"func", "task", "json", "nii", "fslval", "elem", "runwalk"} => hist.trace = 1
        /\ hist.trace = 0 => /\ hist.written \subseteq { AnatName(call) }
                             /\ \A i \in 1..Len(call.tasks) : hist.reoCalls[i] = 0

====
